---- MODULE Spec2Model ----
(***************************************************************************)
(* Kernel functions, the Gram matrix engine (kernel.cpp) and the cache of  *)
(* the kernel logistic regression model (model.h).                         *)
(*                                                                         *)
(* Doubles are fixed-point integers in units of the stability constant     *)
(* 1e-3, so the double 1.0 is the integer One = 1000.  NaN is a separate   *)
(* value that compares unequal to everything, itself included.             *)
(***************************************************************************)
EXTENDS Integers, Naturals, Sequences, FiniteSets, TLC

\* ---------------------------------------------------------------- bounds
MaxDim == 1      \* largest row count d of an input matrix / vector length
MaxCols == 2     \* largest column count M, N of an input matrix
MaxCalls == 3    \* gradient/loss calls made on one model instance

\* ------------------------------------------------------------- constants
stability == 1                 \* double stability = 1e-3 (the unit)
One == 1000 * stability        \* the double 1.0
NaN == -(1000 * One)           \* not-a-number, outside every finite result
Vals == {0, 1}                 \* entries of input vectors (whole numbers)
CVals == {0, 1}                \* bias c of the linear / polynomial kernel
SVals == {0, 1, 2}             \* bandwidth s of the gaussian kernel

\* ------------------------------------------------------ double arithmetic
\* a + b on doubles
FAdd(a, b) == IF a = NaN \/ b = NaN THEN NaN ELSE a + b

\* a == b on doubles (false whenever a NaN is involved)
FEq(a, b) == a # NaN /\ b # NaN /\ a = b

\* 1000 * exp(-k/8), rounded, for k = 0, 1, 2, ...
ExpTable ==
  << 1000, 882, 779, 687, 607, 535, 472, 417, 368, 325, 287, 253, 223, 197,
     174, 153, 135, 119, 105, 93, 82, 72, 64, 56, 50, 44, 39, 34, 30, 27, 24,
     21, 18, 16, 14, 13, 11, 10, 9, 8, 7, 6, 5, 5, 4, 4, 3, 3, 2, 2, 2, 2, 2,
     1, 1, 1, 1, 1, 1, 1, 1 >>

\* exp(-num/den) for num >= 0, den > 0
ExpNeg(num, den) ==
  LET k == (8 * num) \div den
  IN  IF k + 1 <= Len(ExpTable) THEN ExpTable[k + 1] ELSE 0

RECURSIVE IntPow(_, _)
\* pow(base, d) for a whole exponent d >= 0
IntPow(base, d) == IF d = 0 THEN 1 ELSE base * IntPow(base, d - 1)

\* ---------------------------------------------------- vectors and matrices
Vectors(d) == [1..d -> Vals]
AllVectors == UNION {Vectors(d) : d \in 0..MaxDim}

\* a d x m matrix is held by its columns
MatricesOf(d, m) ==
  {[rows |-> d, cols |-> m, col |-> c] : c \in [1..m -> Vectors(d)]}
Matrices == UNION {MatricesOf(d, m) : d \in 0..MaxDim, m \in 0..MaxCols}

\* X.col(i), i counted from 0
Col(X, i) == X.col[i + 1]

\* an m x n matrix of doubles, e[i+1][j+1] is entry (i, j)
Uninit == NaN - 1
NewMatrix(m, n) ==
  [rows |-> m, cols |-> n, e |-> [i \in 1..m |-> [j \in 1..n |-> Uninit]]]
Coeff(R, i, j) == R.e[i + 1][j + 1]
SetCoeff(R, i, j, v) == [R EXCEPT !.e[i + 1][j + 1] = v]
Size(R) == R.rows * R.cols
\* linear (column-major) index of a dense matrix
LinRow(R, idx) == idx % R.rows
LinCol(R, idx) == idx \div R.rows

RECURSIVE DotUpTo(_, _, _)
DotUpTo(x, y, n) == IF n = 0 THEN 0 ELSE DotUpTo(x, y, n - 1) + x[n] * y[n]
\* x.transpose() * y
Dot(x, y) == DotUpTo(x, y, Len(x))

RECURSIVE SqDistUpTo(_, _, _)
SqDistUpTo(x, y, n) ==
  IF n = 0 THEN 0
  ELSE SqDistUpTo(x, y, n - 1) + (x[n] - y[n]) * (x[n] - y[n])
\* (x - y).array().square().sum()
SqDist(x, y) == SqDistUpTo(x, y, Len(x))

\* ------------------------------------------------------------------ kernels
Kernels ==
  {[type |-> "linear", a |-> 0, c |-> c, d |-> 0, s |-> 0] : c \in CVals}
  \cup {[type |-> "polynomial", a |-> 1, c |-> c, d |-> 2, s |-> 0] : c \in CVals}
  \cup {[type |-> "gaussian", a |-> 0, c |-> 0, d |-> 0, s |-> s] : s \in SVals}

linear_kernel_k(kn, x, y) == (Dot(x, y) + kn.c) * One

\* a plausible slip: x_i is multiplied with itself
polynomial_kernel_k_xx(kn, x, y) ==
  LET dot == Dot(x, x)
      base == kn.a * dot + kn.c
  IN  IntPow(base, kn.d) * One

polynomial_kernel_k(kn, x, y) ==
  LET dot == Dot(x, y)
      base == kn.a * dot + kn.c
  IN  IntPow(base, kn.d) * One

\* a plausible slip: the cross term of the squared distance is lost
gaussian_kernel_k_norms(kn, x, y) ==
  LET sq == Dot(x, x) + Dot(y, y)
      den == 2 * kn.s * kn.s
  IN  IF den = 0
        THEN IF sq = 0 THEN NaN
             ELSE 0
        ELSE ExpNeg(sq, den)

gaussian_kernel_k(kn, x, y) ==
  LET sq == SqDist(x, y)
      den == 2 * kn.s * kn.s
  IN  IF den = 0
        THEN IF sq = 0 THEN NaN    \* -0.0 / 0.0 is NaN, exp(NaN) is NaN
             ELSE 0                \* -sq / 0.0 is -inf, exp(-inf) is 0
        ELSE ExpNeg(sq, den)

\* the virtual call this->k(x, y)
k(kn, x, y) ==
  CASE kn.type = "linear" -> linear_kernel_k(kn, x, y)
    [] kn.type = "polynomial" -> polynomial_kernel_k(kn, x, y)
    [] kn.type = "gaussian" -> gaussian_kernel_k(kn, x, y)

\* -------------------------------------------------------------------- state
VARIABLES
  kern,       \* the kernel object the calls are made on
  op,         \* the entry point called: "gram_matrix", "gram_matrix_stable", "k"
  pc,         \* position of the call
  X, Y,       \* arguments of gram_matrix / gram_matrix_stable
  result,     \* the local MatrixXd result
  i, j,       \* loop counters of gram_matrix
  kcalls,     \* number of evaluations of this->k made by the call
  ret,        \* <<>> until the call returns, then <<returned matrix>>
  err,        \* "none", "invalid_argument" (thrown) or "assert_abort"
  oob,        \* TRUE once an entry outside result has been accessed
  kx, ky,     \* arguments of a direct evaluation k(x, y)
  kres,       \* <<>> or <<scalar returned by the direct evaluation>>
  trainX,     \* the training set the driver passes to the model
  first,      \* kernel_binary_logistic_regression_model::first
  KXX,        \* kernel_binary_logistic_regression_model::_KXX
  gramCalls,  \* calls of kernel::gram_matrix_stable made by the model
  ncalls      \* gradient/loss calls made on the model

kvars == <<kern, op, pc, X, Y, result, i, j, kcalls, ret, err, oob, kx, ky, kres>>
mvars == <<trainX, first, KXX, gramCalls, ncalls>>
vars == <<kern, op, pc, X, Y, result, i, j, kcalls, ret, err, oob, kx, ky, kres,
          trainX, first, KXX, gramCalls, ncalls>>

EmptyInput == [rows |-> 0, cols |-> 0, col |-> <<>>]

InitKernel ==
  /\ kern \in Kernels
  /\ op = "none"
  /\ pc = "idle"
  /\ X = EmptyInput
  /\ Y = EmptyInput
  /\ result = NewMatrix(0, 0)
  /\ i = 0
  /\ j = 0
  /\ kcalls = 0
  /\ ret = <<>>
  /\ err = "none"
  /\ oob = FALSE
  /\ kx = <<>>
  /\ ky = <<>>
  /\ kres = <<>>

InitCache ==
  /\ first = TRUE
  /\ KXX = NewMatrix(0, 0)
  /\ gramCalls = 0
  /\ ncalls = 0

Init == InitKernel /\ InitCache /\ trainX = EmptyInput

\* ------------------------------------------------------ kernel::gram_matrix
\* a caller invokes gram_matrix(x, y)
CallGramMatrix ==
  /\ pc = "idle"
  /\ \E x \in Matrices, y \in Matrices : X' = x /\ Y' = y
  /\ op' = "gram_matrix"
  /\ pc' = "gm_check"
  /\ UNCHANGED <<kern, result, i, j, kcalls, ret, err, oob, kx, ky, kres>>
  /\ UNCHANGED mvars

\* a caller invokes gram_matrix_stable(x, y), whose first statement calls
\* gram_matrix(X, Y)
CallGramMatrixStable ==
  /\ pc = "idle"
  /\ \E x \in Matrices, y \in Matrices : X' = x /\ Y' = y
  /\ op' = "gram_matrix_stable"
  /\ pc' = "gm_check"
  /\ UNCHANGED <<kern, result, i, j, kcalls, ret, err, oob, kx, ky, kres>>
  /\ UNCHANGED mvars

\* a plausible slip: the column counts are compared instead
RowsMismatchCols(A, B) == A.cols # B.cols

\* X.rows() != Y.rows()
RowsMismatch(A, B) == A.rows # B.rows

\* if(X.rows() != Y.rows()) throw invalid_argument(...)
GramThrow ==
  /\ pc = "gm_check"
  /\ RowsMismatch(X, Y)
  /\ err' = "invalid_argument"
  /\ pc' = "error"
  /\ UNCHANGED <<kern, op, X, Y, result, i, j, kcalls, ret, oob, kx, ky, kres>>
  /\ UNCHANGED mvars

\* M = X.cols(); N = Y.cols(); result = MatrixXd(M, N); i = 0
GramAlloc ==
  /\ pc = "gm_check"
  /\ ~RowsMismatch(X, Y)
  /\ result' = NewMatrix(X.cols, Y.cols)
  /\ i' = 0
  /\ j' = 0
  /\ pc' = "gm_loop"
  /\ UNCHANGED <<kern, op, X, Y, kcalls, ret, err, oob, kx, ky, kres>>
  /\ UNCHANGED mvars

\* a plausible slip: the column of Y is not indexed by the inner counter
GramCellFirstColumn(kn, A, B, r, c) == k(kn, Col(A, r), Col(B, 0))

\* the value stored by the loop body into result(i, j)
GramCell(kn, A, B, r, c) == k(kn, Col(A, r), Col(B, c))

\* result(i,j) = this->k(X.col(i), Y.col(j)); ++j; and, when that ends the
\* inner loop, ++i and j = 0
GramLoopBody ==
  /\ pc = "gm_loop"
  /\ i < X.cols
  /\ j < Y.cols
  /\ result' = SetCoeff(result, i, j, GramCell(kern, X, Y, i, j))
  /\ kcalls' = kcalls + 1
  /\ IF j + 1 < Y.cols
       THEN i' = i /\ j' = j + 1
       ELSE i' = i + 1 /\ j' = 0
  /\ UNCHANGED <<kern, op, pc, X, Y, ret, err, oob, kx, ky, kres>>
  /\ UNCHANGED mvars

\* the inner loop is entered with nothing to do (N = 0): ++i, j = 0
GramNextRow ==
  /\ pc = "gm_loop"
  /\ i < X.cols
  /\ j >= Y.cols
  /\ i' = i + 1
  /\ j' = 0
  /\ UNCHANGED <<kern, op, pc, X, Y, result, kcalls, ret, err, oob, kx, ky, kres>>
  /\ UNCHANGED mvars

\* the outer loop ends: return result
GramReturn ==
  /\ pc = "gm_loop"
  /\ i >= X.cols
  /\ IF op = "gram_matrix"
       THEN pc' = "done" /\ ret' = <<result>>
       ELSE pc' = "stable" /\ ret' = ret
  /\ UNCHANGED <<kern, op, X, Y, result, i, j, kcalls, err, oob, kx, ky, kres>>
  /\ UNCHANGED mvars

\* ----------------------------------------------- kernel::gram_matrix_stable
\* result(result.size() - 1), defined when result has an entry
LastCoeff(R) == Coeff(R, LinRow(R, Size(R) - 1), LinCol(R, Size(R) - 1))

\* a plausible slip: the test of the entry is left out
IsOneByOne(R) == Size(R) = 1

\* result.size() == 1 && result(0, 0) == 1
IsOneByOneOne(R) == Size(R) = 1 /\ FEq(Coeff(R, 0, 0), One)

\* result.rows() > 1 && result.cols() > 1
IsNormal(R) == R.rows > 1 /\ R.cols > 1

\* result.cols() == 1 || result.rows() == 1
IsRowOrColumn(R) == R.cols = 1 \/ R.rows = 1

\* result(0, 0) = result(0, 0) + stability
AddToFirst(R) == SetCoeff(R, 0, 0, FAdd(Coeff(R, 0, 0), stability))

\* a plausible slip: the constant is added to every entry
AddConstant(R) ==
  [R EXCEPT !.e = [r \in 1..R.rows |-> [c \in 1..R.cols |->
                     FAdd(R.e[r][c], stability)]]]

\* result + (stability * MatrixXd::Identity(X.cols(), Y.cols()))
AddIdentity(R) ==
  [R EXCEPT !.e = [r \in 1..R.rows |-> [c \in 1..R.cols |->
                     FAdd(R.e[r][c], stability * (IF r = c THEN 1 ELSE 0))]]]

\* a plausible slip: the first entry is the one that is raised
AddToLastAtZero(R) == SetCoeff(R, 0, 0, FAdd(Coeff(R, 0, 0), stability))

\* result(result.size() - 1) += stability
AddToLast(R) ==
  SetCoeff(R, LinRow(R, Size(R) - 1), LinCol(R, Size(R) - 1),
           FAdd(LastCoeff(R), stability))

\* first branch: the result is 1x1 and its entry is 1
StableOneByOne ==
  /\ pc = "stable"
  /\ IsOneByOneOne(result)
  /\ result' = AddToFirst(result)
  /\ ret' = <<result'>>
  /\ pc' = "done"
  /\ UNCHANGED <<kern, op, X, Y, i, j, kcalls, err, oob, kx, ky, kres>>
  /\ UNCHANGED mvars

\* second branch: more than one row and more than one column
StableNormal ==
  /\ pc = "stable"
  /\ ~IsOneByOneOne(result)
  /\ IsNormal(result)
  /\ ret' = <<AddIdentity(result)>>
  /\ pc' = "done"
  /\ UNCHANGED <<kern, op, X, Y, result, i, j, kcalls, err, oob, kx, ky, kres>>
  /\ UNCHANGED mvars

\* third branch: a row or a column whose last entry is 1
StableRowOrColumn ==
  /\ pc = "stable"
  /\ ~IsOneByOneOne(result)
  /\ ~IsNormal(result)
  /\ IsRowOrColumn(result)
  /\ Size(result) > 0
  /\ FEq(LastCoeff(result), One)
  /\ result' = AddToLast(result)
  /\ ret' = <<result'>>
  /\ pc' = "done"
  /\ UNCHANGED <<kern, op, X, Y, i, j, kcalls, err, oob, kx, ky, kres>>
  /\ UNCHANGED mvars

\* else branch: return result
StablePassThrough ==
  /\ pc = "stable"
  /\ ~IsOneByOneOne(result)
  /\ ~IsNormal(result)
  /\ \/ ~IsRowOrColumn(result)
     \/ Size(result) > 0 /\ ~FEq(LastCoeff(result), One)
  /\ ret' = <<result>>
  /\ pc' = "done"
  /\ UNCHANGED <<kern, op, X, Y, result, i, j, kcalls, err, oob, kx, ky, kres>>
  /\ UNCHANGED mvars

\* third branch on an empty row or column: result(-1) is evaluated.
\* A build with Eigen's assertions on stops at the index check.
StableEmptyAssert ==
  /\ pc = "stable"
  /\ ~IsOneByOneOne(result)
  /\ ~IsNormal(result)
  /\ IsRowOrColumn(result)
  /\ Size(result) = 0
  /\ err' = "assert_abort"
  /\ pc' = "error"
  /\ UNCHANGED <<kern, op, X, Y, result, i, j, kcalls, ret, oob, kx, ky, kres>>
  /\ UNCHANGED mvars

\* The same case in a build without assertions: the double in front of the
\* buffer is read; when it happens to be 1 it is also written.  The value
\* read decides nothing about the returned (empty) matrix.
StableEmptyRelease ==
  /\ pc = "stable"
  /\ ~IsOneByOneOne(result)
  /\ ~IsNormal(result)
  /\ IsRowOrColumn(result)
  /\ Size(result) = 0
  /\ oob' = TRUE
  /\ ret' = <<result>>
  /\ pc' = "done"
  /\ UNCHANGED <<kern, op, X, Y, result, i, j, kcalls, err, kx, ky, kres>>
  /\ UNCHANGED mvars

\* ----------------------------------------------------------- direct k(x, y)
\* k(x, y) on vectors of equal length
EvalK ==
  /\ pc = "idle"
  /\ \E x \in AllVectors, y \in AllVectors :
       /\ Len(x) = Len(y)
       /\ kx' = x
       /\ ky' = y
       /\ kres' = <<k(kern, x, y)>>
  /\ op' = "k"
  /\ kcalls' = kcalls + 1
  /\ pc' = "done"
  /\ UNCHANGED <<kern, X, Y, result, i, j, ret, err, oob>>
  /\ UNCHANGED mvars

\* k(x, y) on vectors of different length, in a build with Eigen's assertions
\* on: the size check of the product / difference expression stops the program
EvalKMismatchAssert ==
  /\ pc = "idle"
  /\ \E x \in AllVectors, y \in AllVectors :
       /\ Len(x) # Len(y)
       /\ kx' = x
       /\ ky' = y
  /\ op' = "k"
  /\ err' = "assert_abort"
  /\ pc' = "error"
  /\ UNCHANGED <<kern, X, Y, result, i, j, kcalls, ret, oob, kres>>
  /\ UNCHANGED mvars

\* the same call in a build without assertions: the expression has the size
\* of its left operand; entries of y beyond its end are indeterminate
EvalKMismatchRelease ==
  /\ pc = "idle"
  /\ \E x \in AllVectors, y \in AllVectors :
       /\ Len(x) # Len(y)
       /\ kx' = x
       /\ ky' = y
       /\ \E yy \in Vectors(Len(x)) :
            /\ \A t \in 1..Len(x) : t <= Len(y) => yy[t] = y[t]
            /\ kres' = <<k(kern, x, yy)>>
       /\ oob' = (Len(x) > Len(y))
  /\ op' = "k"
  /\ kcalls' = kcalls + 1
  /\ pc' = "done"
  /\ UNCHANGED <<kern, X, Y, result, i, j, ret, err>>
  /\ UNCHANGED mvars

\* ------------------------------------------------------------ specification
Next ==
  \/ CallGramMatrix
  \/ CallGramMatrixStable
  \/ GramThrow
  \/ GramAlloc
  \/ GramLoopBody
  \/ GramNextRow
  \/ GramReturn
  \/ StableOneByOne
  \/ StableNormal
  \/ StableRowOrColumn
  \/ StablePassThrough
  \/ StableEmptyAssert
  \/ StableEmptyRelease
  \/ EvalK
  \/ EvalKMismatchAssert
  \/ EvalKMismatchRelease

Spec == Init /\ [][Next]_vars

\* --------------------------------------- the two routines as pure functions
\* gram_matrix(A, B) for A.rows = B.rows: the matrix the loop builds
gram_matrix(kn, A, B) ==
  [rows |-> A.cols, cols |-> B.cols,
   e |-> [r \in 1..A.cols |-> [c \in 1..B.cols |->
            GramCell(kn, A, B, r - 1, c - 1)]]]

\* gram_matrix_stable(A, B) for A.rows = B.rows and a result that is not an
\* empty row or column
gram_matrix_stable(kn, A, B) ==
  LET R == gram_matrix(kn, A, B)
  IN  IF IsOneByOneOne(R) THEN AddToFirst(R)
      ELSE IF IsNormal(R) THEN AddIdentity(R)
      ELSE IF IsRowOrColumn(R) /\ FEq(LastCoeff(R), One) THEN AddToLast(R)
      ELSE R

\* ----------------------------- kernel_binary_logistic_regression_model cache
InitModel == InitKernel /\ InitCache /\ trainX \in Matrices

\* a plausible slip: the flag is never cleared
CacheStepKeepsFlag(name) ==
  /\ ncalls < MaxCalls
  /\ ncalls' = ncalls + 1
  /\ op' = name
  /\ IF first
       THEN /\ KXX' = gram_matrix_stable(kern, trainX, trainX)
            /\ gramCalls' = gramCalls + 1
            /\ first' = first
       ELSE UNCHANGED <<KXX, gramCalls, first>>
  /\ UNCHANGED trainX
  /\ UNCHANGED <<kern, pc, X, Y, result, i, j, kcalls, ret, err, oob, kx, ky, kres>>

\* what a gradient/loss call does to the cache: the Gram matrix of the
\* training set is computed when the first flag is set, and the flag cleared
CacheStep(name) ==
  /\ ncalls < MaxCalls
  /\ ncalls' = ncalls + 1
  /\ op' = name
  /\ IF first
       THEN /\ KXX' = gram_matrix_stable(kern, trainX, trainX)
            /\ gramCalls' = gramCalls + 1
            /\ first' = FALSE
       ELSE UNCHANGED <<KXX, gramCalls, first>>
  /\ UNCHANGED trainX
  /\ UNCHANGED <<kern, pc, X, Y, result, i, j, kcalls, ret, err, oob, kx, ky, kres>>

\* gradient(w, X, y) on the training set
Gradient == CacheStep("gradient")

\* loss(w, X, y) on the training set
Loss == CacheStep("loss")

NextModel == Gradient \/ Loss

SpecModel == InitModel /\ [][NextModel]_vars

\* =================================================================== claims
Returned(name) == op = name /\ pc = "done"

\* C1: gram_matrix(X, Y) on inputs with equal row count returns a matrix with
\* cols(X) rows and cols(Y) columns whose entry (r, c) is k(column r of X,
\* column c of Y) for every r and c.
C1_GramEntries ==
  Returned("gram_matrix") =>
    /\ Len(ret) = 1
    /\ ret[1].rows = X.cols
    /\ ret[1].cols = Y.cols
    /\ Len(ret[1].e) = X.cols
    /\ \A r \in 1..X.cols :
         /\ Len(ret[1].e[r]) = Y.cols
         /\ \A c \in 1..Y.cols : ret[1].e[r][c] = k(kern, X.col[r], Y.col[c])

\* a 2 x 2 Gram matrix with different entries has been returned
C1_Witness ==
  /\ Returned("gram_matrix")
  /\ X.rows = 1 /\ X.cols = 2 /\ Y.cols = 2
  /\ ret[1].e[1][2] # ret[1].e[2][1]
  /\ ret[1].e[1][1] # ret[1].e[1][2]

\* C2: gram_matrix(X, Y) with rows(X) # rows(Y) throws invalid_argument before
\* any kernel evaluation and before a result matrix exists; nothing is returned.
C2_ThrowBeforeWork ==
  (op = "gram_matrix" /\ X.rows # Y.rows /\ pc # "gm_check") =>
    /\ pc = "error"
    /\ err = "invalid_argument"
    /\ kcalls = 0
    /\ result = NewMatrix(0, 0)
    /\ ret = <<>>

\* the throw has happened on inputs that both have columns
C2_Witness ==
  /\ op = "gram_matrix" /\ pc = "error" /\ err = "invalid_argument"
  /\ X.rows # Y.rows /\ X.cols > 0 /\ Y.cols > 0

\* C3: with more than one column on each side, gram_matrix_stable(X, Y) is the
\* Gram matrix plus the stability constant on every entry (r, r) of the main
\* diagonal and the Gram matrix itself everywhere else.
C3_StableNormal ==
  (Returned("gram_matrix_stable") /\ X.cols > 1 /\ Y.cols > 1) =>
    /\ ret[1].rows = X.cols
    /\ ret[1].cols = Y.cols
    /\ \A r \in 1..X.cols : \A c \in 1..Y.cols :
         ret[1].e[r][c] =
           IF r = c THEN FAdd(k(kern, X.col[r], Y.col[c]), stability)
           ELSE k(kern, X.col[r], Y.col[c])

\* a stabilised 2 x 2 Gram matrix of X against itself with a nonzero
\* off-diagonal entry has been returned
C3_Witness ==
  /\ Returned("gram_matrix_stable")
  /\ X = Y /\ X.cols = 2 /\ X.rows = 1
  /\ ret[1].e[1][1] = One + stability
  /\ ret[1].e[1][2] = One

\* C4: when the Gram matrix is 1 x 1, gram_matrix_stable returns the entry plus
\* the stability constant (once) if the entry is exactly 1 and the entry
\* unchanged otherwise, whether or not X equals Y.
C4_StableOneByOne ==
  (Returned("gram_matrix_stable") /\ X.cols = 1 /\ Y.cols = 1) =>
    LET g == k(kern, X.col[1], Y.col[1])
    IN  /\ ret[1].rows = 1
        /\ ret[1].cols = 1
        /\ ret[1].e = << << IF FEq(g, One) THEN g + stability ELSE g >> >>

\* a 1 x 1 Gram matrix of two different inputs whose entry is 1 was stabilised
C4_Witness ==
  /\ Returned("gram_matrix_stable")
  /\ X.cols = 1 /\ Y.cols = 1 /\ X # Y
  /\ k(kern, X.col[1], Y.col[1]) = One
  /\ ret[1].e = << << One + stability >> >>

\* C5: when the Gram matrix is a row or a column with more than one entry,
\* gram_matrix_stable adds the stability constant to the last entry only, and
\* only if that entry is exactly 1; every other entry is the Gram entry.
C5_StableRowOrColumn ==
  (Returned("gram_matrix_stable") /\ (X.cols = 1 \/ Y.cols = 1)
     /\ X.cols * Y.cols > 1) =>
    /\ ret[1].rows = X.cols
    /\ ret[1].cols = Y.cols
    /\ \A r \in 1..X.cols : \A c \in 1..Y.cols :
         LET g == k(kern, X.col[r], Y.col[c])
         IN  ret[1].e[r][c] =
               IF r = X.cols /\ c = Y.cols /\ FEq(g, One)
                 THEN g + stability ELSE g

\* a row whose first and last entries are both 1 was stabilised: only the
\* last one moved
C5_Witness ==
  /\ Returned("gram_matrix_stable")
  /\ X.cols = 1 /\ Y.cols = 2
  /\ k(kern, X.col[1], Y.col[1]) = One
  /\ ret[1].e[1] = << One, One + stability >>

\* C6: gram_matrix_stable fails exactly when the row counts differ, with
\* invalid_argument, and otherwise returns without touching an entry outside
\* the result.
C6_StableFailsOnlyOnRows ==
  (op = "gram_matrix_stable" /\ pc \in {"done", "error"}) =>
    /\ (pc = "error") <=> (X.rows # Y.rows)
    /\ pc = "error" => err = "invalid_argument"
    /\ oob = FALSE

\* C7: a direct evaluation k(x, y) with len(x) # len(y) fails instead of
\* returning a scalar.
C7_MismatchFails ==
  (op = "k" /\ Len(kx) # Len(ky) /\ pc # "idle") =>
    /\ pc = "error"
    /\ kres = <<>>

\* C8: the first gradient/loss call on the training set fills _KXX with
\* gram_matrix_stable(X, X) and clears the first flag; later calls leave _KXX
\* alone and compute no further Gram matrix (one computation in total).
C8_CacheOnce ==
  /\ ncalls = 0 => first /\ gramCalls = 0
  /\ ncalls > 0 =>
       /\ ~first
       /\ gramCalls = 1
       /\ KXX = gram_matrix_stable(kern, trainX, trainX)

\* a later call has been made on a training set of two samples
C8_Witness ==
  /\ ncalls = 2 /\ trainX.cols = 2 /\ trainX.rows = 1
  /\ ~first /\ gramCalls = 1
  /\ KXX.e[1][1] = One + stability

\* C9 (as stated): gaussian_kernel.k(x, x) is exactly 1 for every bandwidth.
C9_SelfSimilarityAnyBandwidth ==
  (Returned("k") /\ kern.type = "gaussian" /\ kx = ky) => kres = << One >>

\* C9 (amended): gaussian_kernel.k(x, x) is exactly 1 whenever 2*s*s is not
\* zero.
C9_SelfSimilarity ==
  (Returned("k") /\ kern.type = "gaussian" /\ kx = ky /\ 2 * kern.s * kern.s # 0)
    => kres = << One >>

\* k(x, x) has been evaluated on a nonzero vector with bandwidth 2
C9_Witness ==
  /\ Returned("k") /\ kern.type = "gaussian" /\ kern.s = 2
  /\ kx = ky /\ Len(kx) = 1 /\ kx[1] = 1
  /\ kres = << One >>

\* C10: gram_matrix(Y, X) is the transpose of gram_matrix(X, Y) for each
\* kernel, and gram_matrix_stable(X, X) is symmetric.
C10_Transpose ==
  /\ Returned("gram_matrix") =>
       LET T == gram_matrix(kern, Y, X)
       IN  /\ T.rows = ret[1].cols
           /\ T.cols = ret[1].rows
           /\ \A r \in 1..X.cols : \A c \in 1..Y.cols :
                ret[1].e[r][c] = T.e[c][r]
  /\ (Returned("gram_matrix_stable") /\ X = Y) =>
       \A r \in 1..X.cols : \A c \in 1..X.cols :
         ret[1].e[r][c] = ret[1].e[c][r]

\* a Gram matrix of two different inputs with different entries was returned
C10_Witness ==
  /\ Returned("gram_matrix")
  /\ X # Y /\ X.cols = 2 /\ Y.cols = 2 /\ X.rows = 1
  /\ ret[1].e[1][2] # ret[1].e[2][1]
  /\ kern.type = "polynomial"

====
